---------------------------- MODULE Spec2Model ----------------------------
(***************************************************************************)
(* A model of src/scrapper.py: the card extractor (process_card), its text *)
(* clean-up, the pagination readers and the year/page driver (scrapper).   *)
(*                                                                         *)
(* Text is a sequence of one-character strings.  A document is the part of *)
(* the parsed HTML tree the code looks at.                                 *)
(*                                                                         *)
(* Three specifications share the variables: SpecNorm applies the clean-up *)
(* of a field value to a text and again to its result, SpecCard runs       *)
(* process_card on one card fragment, and Spec runs scrapper.  Line 109 of *)
(* scrapper evaluates trange.get, an attribute tqdm's trange function does *)
(* not have, so every run that enters the year loop ends there with an     *)
(* AttributeError: the body of the page loop (lines 110-121) is never      *)
(* entered and Spec has no action for it.                                  *)
(***************************************************************************)
EXTENDS Integers, Sequences, FiniteSets, TLC

(***************************************************************************)
(* Bounds of the model.                                                    *)
(***************************************************************************)
\* longest text handed to the clean-up harness
MaxLen == 5
\* most <p> elements in a card's body region
MaxParagraphs == 12
\* most star images in a card's header region
MaxStars == 2

(***************************************************************************)
(* Text helpers (str methods and the two regular expressions).             *)
(***************************************************************************)
\* Python's None.  No text equals it: text holds one-character strings only.
None == <<"None">>

IsSpace(c) == c \in {" ", "\n"}

\* str.lower() on the letters the model uses
Lower(c) ==
    CASE c = "E" -> "e"
      [] c = "A" -> "a"
      [] c = "D" -> "d"
      [] OTHER   -> c

LowerText(s) == [i \in 1..Len(s) |-> Lower(s[i])]

\* `sub in s`
Contains(s, sub) ==
    \E i \in 0..(Len(s) - Len(sub)) :
        \A j \in 1..Len(sub) : s[i + j] = sub[j]

RECURSIVE LStrip(_)
LStrip(s) ==
    IF s # <<>> /\ IsSpace(Head(s)) THEN LStrip(Tail(s)) ELSE s

RECURSIVE RStrip(_)
RStrip(s) ==
    IF s # <<>> /\ IsSpace(s[Len(s)])
    THEN RStrip(SubSeq(s, 1, Len(s) - 1))
    ELSE s

\* str.strip()
Strip(s) == RStrip(LStrip(s))

\* str.replace("\n", " ")
ReplaceNewlines(s) == [i \in 1..Len(s) |-> IF s[i] = "\n" THEN " " ELSE s[i]]

\* the text after the leading run of " "
RECURSIVE SkipBlanks(_)
SkipBlanks(s) ==
    IF s # <<>> /\ Head(s) = " " THEN SkipBlanks(Tail(s)) ELSE s

\* space_regex.sub(" ", s) with space_regex = " +"
RECURSIVE CollapseSpaces(_)
CollapseSpaces(s) ==
    IF s = <<>> THEN <<>>
    ELSE IF Head(s) = " "
         THEN <<" ">> \o CollapseSpaces(SkipBlanks(Tail(s)))
         ELSE <<Head(s)>> \o CollapseSpaces(Tail(s))

\* comma_regex.sub(",", s) with comma_regex = ", *,": matches are found left
\* to right and do not overlap, so the comma closing one match never opens
\* the next.
RECURSIVE CollapseCommas(_)
CollapseCommas(s) ==
    IF s = <<>> THEN <<>>
    ELSE LET r == SkipBlanks(Tail(s))
         IN  IF Head(s) = "," /\ r # <<>> /\ Head(r) = ","
             THEN <<",">> \o CollapseCommas(Tail(r))
             ELSE <<Head(s)>> \o CollapseCommas(Tail(s))

\* lines 72-73: the two substitutions applied to a field value
Normalize(s) == CollapseCommas(CollapseSpaces(s))

\* lines 71-73: the value stored for a paragraph whose text is s
CleanContent(s) == Normalize(ReplaceNewlines(Strip(s)))

\* s.rsplit(ch, maxsplit=1)
LastIndexOf(s, ch) ==
    IF \E i \in 1..Len(s) : s[i] = ch
    THEN CHOOSE i \in 1..Len(s) :
            s[i] = ch /\ \A j \in (i + 1)..Len(s) : s[j] # ch
    ELSE 0

RSplit1(s, ch) ==
    LET k == LastIndexOf(s, ch)
    IN  IF k = 0 THEN <<s>>
        ELSE <<SubSeq(s, 1, k - 1), SubSeq(s, k + 1, Len(s))>>

\* str.replace(".", "")
RECURSIVE RemoveDots(_)
RemoveDots(s) ==
    IF s = <<>> THEN <<>>
    ELSE IF Head(s) = "." THEN RemoveDots(Tail(s))
         ELSE <<Head(s)>> \o RemoveDots(Tail(s))

Digits == <<"0", "1", "2", "3", "4", "5", "6", "7", "8", "9">>

IsDigit(c) == \E d \in 1..10 : Digits[d] = c

DigitValue(c) == (CHOOSE d \in 1..10 : Digits[d] = c) - 1

\* int(s) for the texts of the model: decimal digits, or ValueError (-1)
RECURSIVE ParseInt(_)
ParseInt(s) ==
    IF s = <<>> \/ \E i \in 1..Len(s) : ~IsDigit(s[i]) THEN -1
    ELSE IF Len(s) = 1 THEN DigitValue(s[1])
         ELSE 10 * ParseInt(SubSeq(s, 1, Len(s) - 1)) + DigitValue(s[Len(s)])

\* all texts over an alphabet, up to a length
TextsUpTo(alphabet, n) == UNION {[1..k -> alphabet] : k \in 0..n}


(***************************************************************************)
(* Documents: the part of a parsed card fragment that process_card reads.  *)
(* A body paragraph is the text before its first <span>, that span's text  *)
(* (None when the paragraph has no span) and the text after it.            *)
(***************************************************************************)
Para(pre, span, post) == [pre |-> pre, span |-> span, post |-> post]

\* p_elem.text
ParaText(p) == p.pre \o (IF p.span = None THEN <<>> ELSE p.span) \o p.post

\* body.text: the texts of the body's paragraphs, in document order
RECURSIVE ParaTexts(_)
ParaTexts(ps) ==
    IF ps = <<>> THEN <<>> ELSE ParaText(Head(ps)) \o ParaTexts(Tail(ps))

\* one distinguishing character per paragraph position
PositionChar == <<"1", "2", "3", "4", "5", "6", "7", "8", "9",
                  "k", "m", "n", "q", "r", "s", "t">>

LabelText == <<"L", ":">>

\* an ordinary paragraph at position i: <p><span>L:</span> v<i>\n</p>
PlainPara(i) == Para(<<>>, LabelText, <<" ", "v", PositionChar[i], "\n">>)

\* the modality paragraph (third in the body), by kind
ModalityKinds == {"EAD", "Ead", "Presencial", "Semi", "Nested"}

ModalityPara(kind) ==
    CASE kind = "EAD"        -> Para(<<>>, LabelText, <<" ", "E", "A", "D">>)
      [] kind = "Ead"        -> Para(<<>>, LabelText, <<"E", "a", "d", "\n">>)
      [] kind = "Presencial" -> Para(<<>>, LabelText, <<" ", "P">>)
      [] kind = "Semi"       -> Para(<<>>, LabelText, <<"P", "/", "E", "A", "D">>)
      \* <p>E<span>L:</span>AD</p>: the label sits inside the value
      [] kind = "Nested"     -> Para(<<"E">>, LabelText, <<"A", "D">>)

\* one paragraph other than the third may deviate from PlainPara
SpecialKinds == {"eadInValue", "eadInLabel", "noSpan"}

SpecialPara(kind, i) ==
    CASE kind = "eadInValue" -> Para(<<>>, LabelText, <<"w", ".", "e", "a", "d", ".", "w">>)
      [] kind = "eadInLabel" -> Para(<<>>, <<"H", "e", "a", "d", ":">>, <<" ", "v", PositionChar[i]>>)
      [] kind = "noSpan"     -> Para(<<>>, None, <<"v", PositionChar[i]>>)

SpecialPositions == (1..MaxParagraphs) \ {3}

\* the body's paragraphs: n of them, modality kind m, special kind sk at sp
BodyParas(n, m, sk, sp) ==
    [i \in 1..n |->
        IF i = 3 THEN ModalityPara(m)
        ELSE IF i = sp /\ sk \in SpecialKinds THEN SpecialPara(sk, i)
        ELSE PlainPara(i)]

Bodies ==
    {BodyParas(n, m, "none", 0) : n \in 0..MaxParagraphs, m \in ModalityKinds}
    \cup
    UNION {{BodyParas(n, m, sk, sp) : sp \in SpecialPositions \cap (1..n)} :
            n \in 0..MaxParagraphs, m \in ModalityKinds, sk \in SpecialKinds}

\* the header's second paragraph: "... | city - state" and its deviations
CityLines ==
    { <<"G", " ", "|", " ", "C", " ", "-", " ", "S">>,   \* "G | C - S"
      <<"C", "-", "S">>,                                    \* no pipe
      <<"C", "-", "D", "-", "S">>,                          \* hyphen in the city
      <<"G", "-", "H", "|", "C">> }                         \* no hyphen after the pipe

NameLine == <<"N">>

\* a header region: its <p> texts and its number of <img class="estrela">
Header(ps, stars) == [ps |-> ps, stars |-> stars]

Headers ==
    {Header(<<NameLine, <<"G", " ", "|", " ", "C", " ", "-", " ", "S">>>>, k) : k \in 0..MaxStars}
    \cup {Header(<<NameLine, c>>, 1) : c \in CityLines}
    \cup {Header(<<NameLine>>, 0)}

\* a card fragment: whether it has a div.box-basico and a div.box-completo,
\* and what they hold
Card(hasHeader, h, hasBody, b) ==
    [hasHeader |-> hasHeader, header |-> h, hasBody |-> hasBody, body |-> b]

Cards ==
    {Card(TRUE, h, TRUE, b) : h \in Headers, b \in Bodies}
    \cup {Card(FALSE, Header(<<>>, 0), TRUE, b) : b \in Bodies}
    \cup {Card(TRUE, h, FALSE, <<>>) : h \in Headers}

\* the years handed to process_card and to the driver
FirstYear == 2020
MaxYears == 2
Years == FirstYear..(FirstYear + MaxYears - 1)

(***************************************************************************)
(* CardData (lines 14-29), by field name.                                  *)
(***************************************************************************)
\* CardData with telefone declared optional
RequiredFieldsPhoneOptional ==
    {"ies", "nome", "modalidade", "verbete", "titulacao", "campus",
     "categoria", "duracao", "site", "avaliacao", "ano_avaliacao"}

RequiredFields ==
    {"ies", "nome", "modalidade", "verbete", "titulacao", "campus",
     "categoria", "duracao", "site", "telefone", "avaliacao", "ano_avaliacao"}

OptionalFields == {"endereco", "cidade", "estado"}

FieldNames == RequiredFields \cup OptionalFields

\* lines 51-62
BaseFieldOrder ==
    <<"ies", "nome", "modalidade", "verbete", "titulacao", "campus",
      "categoria", "duracao", "site", "telefone">>

\* list.insert(i, x) for 0 <= i <= len(list) (i counts from 0)
Insert(list, i, x) == SubSeq(list, 1, i) \o <<x>> \o SubSeq(list, i + 1, Len(list))

\* the index at which line 65 inserts "endereco"
AddressSlot == 8

EadMarker == <<"e", "a", "d">>

\* line 64: "ead" not in body.text.lower()
BodyLacksEad(ps) == ~Contains(LowerText(ParaTexts(ps)), EadMarker)

\* lines 64-65
FieldOrderFor(ps) ==
    IF BodyLacksEad(ps) THEN Insert(BaseFieldOrder, AddressSlot, "endereco")
    ELSE BaseFieldOrder

\* dict item assignment
Put(d, k, v) == [x \in DOMAIN d \cup {k} |-> IF x = k THEN v ELSE d[x]]

\* line 78: data["modalidade"].lower() != "ead"
IsEadModality(m) == LowerText(m) = EadMarker

\* CardData.model_validate(data) succeeds: every value of the model has its
\* field's type, so validation fails exactly on a missing required field
Validates(d) == RequiredFields \subseteq DOMAIN d

\* the validated record: optional fields default to None
RecordOf(d) == [f \in FieldNames |-> IF f \in DOMAIN d THEN d[f] ELSE None]


(***************************************************************************)
(* State.                                                                  *)
(***************************************************************************)
VARIABLES
    \* the clean-up of one field value (lines 71-73), applied and re-applied
    npc, text, content, again,
    \* process_card: its position, the fragment (card0 as passed in, card as
    \* decompose() has left it), its arguments and locals, and its outcome
    cpc, card0, card, cyear, header, body, field_order, data, idx, result, cerror,
    \* scrapper: its position, arguments and locals, the requests made so
    \* far, the files written so far and the exception that ended it
    pc, start_year, end_year, year, page, page_count, next_page_link, df,
    requests, output, error

normVars == <<npc, text, content, again>>
cardVars == <<cpc, card0, card, cyear, header, body, field_order, data, idx,
              result, cerror>>
driverVars == <<pc, start_year, end_year, year, page, page_count,
                next_page_link, df, requests, output, error>>
vars == <<normVars, cardVars, driverVars>>

\* a local name that is not bound yet
Unbound == <<"unbound">>

\* what find() returns when it finds the element (None otherwise)
Element == <<"element">>

NormIdle ==
    npc = "idle" /\ text = <<>> /\ content = <<>> /\ again = <<>>

CardIdle ==
    /\ cpc = "idle" /\ card0 = Unbound /\ card = Unbound /\ cyear = 0
    /\ header = Unbound /\ body = Unbound /\ field_order = <<>>
    /\ data = <<>> /\ idx = 0 /\ result = <<>> /\ cerror = "none"

DriverIdle ==
    /\ pc = "idle" /\ start_year = 0 /\ end_year = 0 /\ year = 0
    /\ page = Unbound /\ page_count = 0 /\ next_page_link = Unbound
    /\ df = <<>> /\ requests = <<>> /\ output = <<>> /\ error = "none"

(***************************************************************************)
(* The clean-up of a field value, lines 71-73, and its re-application.     *)
(***************************************************************************)
TextAlphabet == {" ", ",", "v", "\n"}

NormInit ==
    /\ npc = "start"
    /\ text \in TextsUpTo(TextAlphabet, MaxLen)
    /\ content = <<>> /\ again = <<>>
    /\ CardIdle /\ DriverIdle

\* lines 71-73 on a paragraph whose text is `text`
CleanOnce ==
    /\ npc = "start"
    /\ content' = CleanContent(text)
    /\ npc' = "once"
    /\ UNCHANGED <<text, again, cardVars, driverVars>>

\* lines 72-73 on the value already stored
CleanAgain ==
    /\ npc = "once"
    /\ again' = Normalize(content)
    /\ npc' = "twice"
    /\ UNCHANGED <<text, content, cardVars, driverVars>>

NormNext == CleanOnce \/ CleanAgain

SpecNorm == NormInit /\ [][NormNext]_vars

(***************************************************************************)
(* process_card, lines 45-83.                                              *)
(***************************************************************************)
CardInit ==
    /\ cpc = "start"
    /\ card0 \in Cards /\ card = card0
    /\ cyear \in Years
    /\ header = Unbound /\ body = Unbound /\ field_order = <<>>
    /\ data = <<>> /\ idx = 0 /\ result = <<>> /\ cerror = "none"
    /\ NormIdle /\ DriverIdle

\* lines 46-48
FindRegions ==
    /\ cpc = "start"
    /\ header' = IF card.hasHeader THEN Element ELSE None
    /\ body' = IF card.hasBody THEN Element ELSE None
    /\ data' = [k \in {"ano_avaliacao"} |-> cyear]
    /\ cpc' = "field_order"
    /\ UNCHANGED <<card0, card, cyear, field_order, idx, result, cerror,
                   normVars, driverVars>>

\* lines 51-67: body.text of a missing body raises AttributeError
BuildFieldOrder ==
    /\ cpc = "field_order"
    /\ IF body = None
       THEN /\ field_order' = BaseFieldOrder
            /\ cpc' = "raised" /\ cerror' = "AttributeError"
            /\ UNCHANGED idx
       ELSE /\ field_order' = FieldOrderFor(card.body)
            /\ idx' = 1
            /\ cpc' = "zip"
            /\ UNCHANGED cerror
    /\ UNCHANGED <<card0, card, cyear, header, body, data, result,
                   normVars, driverVars>>

\* lines 69-74, one pair of zip(field_order, body.find_all("p")): the
\* paragraph's first span is removed from the document, and find("span")
\* of a paragraph without one returns None, whose decompose raises
ZipStep ==
    /\ cpc = "zip"
    /\ idx <= Len(field_order) /\ idx <= Len(card.body)
    /\ LET p == card.body[idx]
       IN  IF p.span = None
           THEN /\ cpc' = "raised" /\ cerror' = "AttributeError"
                /\ UNCHANGED <<card, data, idx>>
           ELSE /\ card' = [card EXCEPT !.body[idx].span = None]
                /\ data' = Put(data, field_order[idx], CleanContent(p.pre \o p.post))
                /\ idx' = idx + 1
                /\ UNCHANGED <<cpc, cerror>>
    /\ UNCHANGED <<card0, cyear, header, body, field_order, result,
                   normVars, driverVars>>

\* line 69: zip stops at the shorter of the two
ZipEnd ==
    /\ cpc = "zip"
    /\ idx > Len(field_order) \/ idx > Len(card.body)
    /\ cpc' = "rating"
    /\ UNCHANGED <<card0, card, cyear, header, body, field_order, data, idx,
                   result, cerror, normVars, driverVars>>

\* line 77: find_all of a missing header raises AttributeError
Rating ==
    /\ cpc = "rating"
    /\ IF header = None
       THEN /\ cpc' = "raised" /\ cerror' = "AttributeError"
            /\ UNCHANGED data
       ELSE /\ data' = Put(data, "avaliacao", card.header.stars)
            /\ cpc' = "city"
            /\ UNCHANGED cerror
    /\ UNCHANGED <<card0, card, cyear, header, body, field_order, idx, result,
                   normVars, driverVars>>

\* line 79: the two texts the right-hand side unpacks into cidade, uf
CityParts(line) == RSplit1(RSplit1(line, "|")[Len(RSplit1(line, "|"))], "-")

\* lines 78-81
CityState ==
    /\ cpc = "city"
    /\ IF "modalidade" \notin DOMAIN data
       THEN /\ cpc' = "raised" /\ cerror' = "KeyError"
            /\ UNCHANGED data
       ELSE IF IsEadModality(data["modalidade"])
       THEN /\ cpc' = "validate"
            /\ UNCHANGED <<data, cerror>>
       ELSE IF Len(card.header.ps) < 2
       THEN /\ cpc' = "raised" /\ cerror' = "IndexError"
            /\ UNCHANGED data
       ELSE IF Len(CityParts(card.header.ps[2])) # 2
       THEN /\ cpc' = "raised" /\ cerror' = "ValueError"
            /\ UNCHANGED data
       ELSE /\ data' = Put(Put(data, "cidade", Strip(CityParts(card.header.ps[2])[1])),
                           "estado", Strip(CityParts(card.header.ps[2])[2]))
            /\ cpc' = "validate"
            /\ UNCHANGED cerror
    /\ UNCHANGED <<card0, card, cyear, header, body, field_order, idx, result,
                   normVars, driverVars>>

\* line 83
Validate ==
    /\ cpc = "validate"
    /\ IF Validates(data)
       THEN /\ result' = <<RecordOf(data)>>
            /\ cpc' = "returned"
            /\ UNCHANGED cerror
       ELSE /\ cpc' = "raised" /\ cerror' = "ValidationError"
            /\ UNCHANGED result
    /\ UNCHANGED <<card0, card, cyear, header, body, field_order, data, idx,
                   normVars, driverVars>>

CardNext ==
    \/ FindRegions \/ BuildFieldOrder \/ ZipStep \/ ZipEnd
    \/ Rating \/ CityState \/ Validate

SpecCard == CardInit /\ [][CardNext]_vars


(***************************************************************************)
(* Page documents: what the driver reads of a fetched page.                *)
(***************************************************************************)
\* well-formed cards: a distance-learning one (10 paragraphs) and an
\* in-person one (11 paragraphs, the ninth being the address)
GoodHeader == Header(<<NameLine, <<"G", " ", "|", " ", "C", " ", "-", " ", "S">>>>, 1)
EadCard == Card(TRUE, GoodHeader, TRUE, BodyParas(10, "EAD", "none", 0))
InPersonCard == Card(TRUE, GoodHeader, TRUE, BodyParas(11, "Presencial", "none", 0))
\* a card whose body holds two paragraphs only
ShortCard == Card(TRUE, GoodHeader, TRUE, BodyParas(2, "Presencial", "none", 0))

\* the texts of a page's <a class="page-numbers"> elements, in document order
Pagers ==
    { <<>>,
      << <<"1">> >>,
      << <<"1">>, <<"2">> >>,
      << <<"1">>, <<"2">>, <<"x">> >>,
      << <<"1">>, <<"1", ".", "2", "3", "4">>, <<"x">> >>,
      << <<"1">>, <<"x">>, <<"2">> >> }

NextUrl == <<"u">>

\* a page: its pager texts, the href of its <a class="next"> (None when it
\* has none) and its div.box-listagem cards
Page(pager, next, cards) == [pager |-> pager, next |-> next, cards |-> cards]

Pages ==
    {Page(pg, nx, cs) :
        pg \in Pagers, nx \in {None, NextUrl},
        cs \in {<<>>, <<EadCard, InPersonCard>>, <<ShortCard>>}}

\* lines 86-87: -1 stands for int() raising ValueError; the caller checks
\* that the pager has the two elements [-2] needs
PageCountOf(pager) == ParseInt(RemoveDots(pager[Len(pager) - 1]))

\* lines 96-100
NextPageLinkOf(doc) == doc.next

(***************************************************************************)
(* scrapper, lines 103-123.                                                *)
(***************************************************************************)
\* lines 38-42: the fixed URL of a year's index
Endpoint == "https://publicacoes.estadao.com.br/guia-da-faculdade"

\* no page fetched yet
NoPage == <<>>

\* scrapper with line 123 in a finally clause: the table is written on the
\* way out of an exception
RaiseAndSave(kind) ==
    /\ pc' = "aborted"
    /\ error' = kind
    /\ output' = Append(output, df)

\* an exception leaves scrapper: nothing catches it, line 123 is not run
Raise(kind) ==
    /\ pc' = "aborted"
    /\ error' = kind
    /\ UNCHANGED output

Init ==
    /\ pc = "year_loop"
    /\ start_year \in Years /\ end_year \in Years
    /\ year = 0
    /\ page = NoPage /\ page_count = 0 /\ next_page_link = Unbound
    /\ df = <<>>                                   \* line 104
    /\ requests = <<>> /\ output = <<>> /\ error = "none"
    /\ NormIdle /\ CardIdle

\* line 105: the first value of range(start_year, end_year + 1), or the
\* end of the loop when the range is empty
YearLoop ==
    /\ pc = "year_loop"
    /\ IF start_year <= end_year
       THEN year' = start_year /\ pc' = "fetch_year"
       ELSE pc' = "write" /\ UNCHANGED year
    /\ UNCHANGED <<start_year, end_year, page, page_count, next_page_link, df,
                   requests, output, error, normVars, cardVars>>

\* line 106 (lines 32-42): one GET of the year's index; the transport
\* raises, or some page comes back
FetchYear ==
    /\ pc = "fetch_year"
    /\ requests' = Append(requests, [url |-> Endpoint, post_type |-> year, ano |-> year])
    /\ \E ok \in BOOLEAN, doc \in Pages :
          IF ok
          THEN page' = <<doc>> /\ pc' = "page_count" /\ UNCHANGED <<error, output>>
          ELSE Raise("ConnectionError") /\ UNCHANGED page
    /\ UNCHANGED <<start_year, end_year, year, page_count, next_page_link, df,
                   normVars, cardVars>>

\* line 108 (lines 86-87)
ReadPageCount ==
    /\ pc = "page_count"
    /\ IF Len(page[1].pager) < 2
       THEN Raise("IndexError") /\ UNCHANGED page_count
       ELSE IF PageCountOf(page[1].pager) = -1
       THEN Raise("ValueError") /\ UNCHANGED page_count
       ELSE /\ page_count' = PageCountOf(page[1].pager)
            /\ pc' = "page_loop"
            /\ UNCHANGED <<error, output>>
    /\ UNCHANGED <<start_year, end_year, year, page, next_page_link, df,
                   requests, normVars, cardVars>>

\* line 109: tqdm's trange is a plain function, so evaluating trange.get
\* raises AttributeError before the loop body (lines 110-121) is entered
PageLoop ==
    /\ pc = "page_loop"
    /\ Raise("AttributeError")
    /\ UNCHANGED <<start_year, end_year, year, page, page_count,
                   next_page_link, df, requests, normVars, cardVars>>

\* line 123
WriteOutput ==
    /\ pc = "write"
    /\ output' = Append(output, df)
    /\ pc' = "done"
    /\ UNCHANGED <<start_year, end_year, year, page, page_count,
                   next_page_link, df, requests, error, normVars, cardVars>>

Next == YearLoop \/ FetchYear \/ ReadPageCount \/ PageLoop \/ WriteOutput

Spec == Init /\ [][Next]_vars


(***************************************************************************)
(* Properties of process_card (checked under SpecCard).                    *)
(***************************************************************************)
CardDone == cpc \in {"returned", "raised"}

Returned == cpc = "returned" /\ Len(result) = 1

\* C1: every record whose modality is not "ead" (case-insensitively) has
\* endereco, cidade and estado populated, whatever else the body text holds.
C1_NonEadHasAddressCityState ==
    (Returned /\ ~IsEadModality(result[1]["modalidade"]))
        => /\ result[1]["endereco"] # None
           /\ result[1]["cidade"] # None
           /\ result[1]["estado"] # None

\* C2: every record whose modality is "ead" (case-insensitively) has
\* endereco, cidade and estado all None.
C2_EadHasNoAddressCityState ==
    (Returned /\ IsEadModality(result[1]["modalidade"]))
        => /\ result[1]["endereco"] = None
           /\ result[1]["cidade"] = None
           /\ result[1]["estado"] = None

\* the rest of the card is as process_card expects it: a header with a
\* second paragraph that splits into city and state, and a label span in
\* every body paragraph
RestWellFormed ==
    /\ card0.hasHeader
    /\ Len(card0.header.ps) >= 2
    /\ Len(CityParts(card0.header.ps[2])) = 2
    /\ \A i \in 1..Len(card0.body) : card0.body[i].span # None

FewerParagraphs == card0.hasBody /\ Len(card0.body) < Len(field_order)

\* the body field names that have a value in data
PairedNames == {field_order[i] : i \in 1..Len(field_order)} \cap DOMAIN data

\* C9 as stated: with fewer body paragraphs than field names (the card
\* being well-formed otherwise), for every paragraph count from 0 on,
\* process_card ends in a schema validation error.
C9_FewerParagraphsFailValidation ==
    (CardDone /\ FewerParagraphs /\ RestWellFormed)
        => (cpc = "raised" /\ cerror = "ValidationError")

\* C9 amended: with fewer body paragraphs than field names no record is
\* returned; the card being well-formed otherwise, exactly the leading
\* field names are paired with the paragraphs, and the failure is a schema
\* validation error for 3 paragraphs or more and a KeyError (line 78 reads
\* data["modalidade"]) for 0, 1 or 2 paragraphs.
C9_FewerParagraphsFail ==
    (CardDone /\ FewerParagraphs)
        => /\ cpc = "raised" /\ result = <<>>
           /\ RestWellFormed =>
                /\ PairedNames = {field_order[i] : i \in 1..Len(card0.body)}
                /\ \A i \in 1..Len(card0.body) :
                      data[field_order[i]]
                        = CleanContent(card0.body[i].pre \o card0.body[i].post)
                /\ cerror = IF Len(card0.body) >= 3 THEN "ValidationError"
                                                    ELSE "KeyError"

\* C9 witness: an in-person card with 10 of its 11 paragraphs has failed
\* validation.
C9_Witness ==
    /\ cpc = "raised" /\ cerror = "ValidationError"
    /\ RestWellFormed
    /\ Len(field_order) = 11 /\ Len(card0.body) = 10
    /\ DOMAIN data \cap {"site", "telefone"} = {"site"}

(***************************************************************************)
(* Property of the clean-up (checked under SpecNorm).                      *)
(***************************************************************************)
\* C3: normalizing an already normalized value returns it unchanged.
C3_NormalizeIdempotent == npc = "twice" => again = content

(***************************************************************************)
(* Properties of scrapper (checked under Spec).                            *)
(***************************************************************************)
DriverDone == pc \in {"done", "aborted"}

\* the exceptions of a failed fetch, a failed layout assumption and a
\* failed schema validation
FetchLayoutValidationErrors ==
    {"ConnectionError", "IndexError", "ValueError", "KeyError", "ValidationError"}

NoFetchLayoutValidationError == error \notin FetchLayoutValidationErrors

\* the driver is through with a fetched page that raised none of these
LeftPage == DriverDone /\ page # NoPage /\ NoFetchLayoutValidationError

\* C4: the driver leaves a year only at a page that has no next link (the
\* page count is no stop condition).
C4_LeavesYearOnlyWithoutNextLink ==
    LeftPage => NextPageLinkOf(page[1]) = None

\* C5: one year, a first page with an EAD card and an in-person card and no
\* next link: the run ends having written the output once, after one
\* fetch, with two records tagged with the year, the EAD one without
\* address, city and state and the in-person one with them.
C5_TwoCardsOnePage ==
    ( /\ LeftPage
      /\ start_year = end_year
      /\ page[1].cards = <<EadCard, InPersonCard>>
      /\ NextPageLinkOf(page[1]) = None )
        => /\ pc = "done"
           /\ Len(requests) = 1
           /\ output = <<df>>
           /\ Len(df) = 2
           /\ \A i \in 1..2 : df[i]["ANO DE AVALIACAO"] = start_year
           /\ \E i \in 1..2 :
                 /\ IsEadModality(df[i]["MODALIDADE"])
                 /\ df[i]["ENDERECO"] = None
                 /\ df[i]["CIDADE"] = None
                 /\ df[i]["ESTADO"] = None
           /\ \E i \in 1..2 :
                 /\ ~IsEadModality(df[i]["MODALIDADE"])
                 /\ df[i]["ENDERECO"] # None
                 /\ df[i]["CIDADE"] # None
                 /\ df[i]["ESTADO"] # None

\* the years of the range that the year loop has not reached
YearsLeft ==
    IF year = 0 THEN start_year..end_year ELSE (year + 1)..end_year

\* C6: the output is written at most once, only when the run ends normally
\* with no year of the range left, and it is the aggregate table; after
\* any exception the run is aborted and nothing has been written.
C6_WriteOnceAtEndOnly ==
    /\ Len(output) <= 1
    /\ output # <<>> =>
          pc = "done" /\ error = "none" /\ YearsLeft = {} /\ output = <<df>>
    /\ error # "none" => pc = "aborted" /\ output = <<>>
    /\ pc = "aborted" => error # "none"

\* C6 witness: a layout error (the pager lookup of the first page) has
\* aborted the run after one fetch, and no file was written.
C6_Witness ==
    /\ pc = "aborted" /\ error = "IndexError"
    /\ Len(requests) = 1 /\ page # NoPage
    /\ output = <<>>

\* the index request of year y
IndexRequest(y) == [url |-> Endpoint, post_type |-> y, ano |-> y]

\* C7: with start_year <= end_year and no fetch, layout or validation
\* error, the run ends normally having fetched the index of every year of
\* the range exactly once, in ascending order.
C7_AllYearsProcessed ==
    (DriverDone /\ start_year <= end_year /\ NoFetchLayoutValidationError)
        => /\ pc = "done"
           /\ SelectSeq(requests, LAMBDA r : r.url = Endpoint)
                = [i \in 1..(end_year - start_year + 1) |->
                      IndexRequest(start_year + i - 1)]

\* C8: on every page the driver visits, the next-page URL is read from
\* that page's document: when the driver is through with a page, the link
\* it holds is that page's.
C8_NextLinkReadFromCurrentPage ==
    LeftPage => next_page_link = NextPageLinkOf(page[1])

\* C10: a processed page adds one row per card, in document order, to the
\* rows the table had: after the first page of the run the table holds
\* that page's cards, tagged with the year.
C10_PageRowsAppended ==
    ( /\ LeftPage
      /\ Len(requests) = 1
      /\ page[1].cards \in {<<>>, <<EadCard, InPersonCard>>} )
        => /\ Len(df) = Len(page[1].cards)
           /\ \A i \in 1..Len(df) :
                 /\ df[i]["ANO DE AVALIACAO"] = year
                 /\ IsEadModality(df[i]["MODALIDADE"]) = (i = 1)

==========================================================================
